---- MODULE Spec2Model ----
(***************************************************************************)
(* A model of the SharePoint ingest connector                              *)
(* (src/unstructured/ingest/connector/sharepoint.py).                      *)
(*                                                                         *)
(* Two specifications share the module:                                    *)
(*   Spec      the download side: a batch of SharepointIngestDoc records    *)
(*             on which get_file is invoked any number of times, against a  *)
(*             local disk that persists between the invocations;            *)
(*   SpecEnum  the enumeration side: _list_files, _list_pages,              *)
(*             SharepointIngestDoc construction and _ingest_site_docs       *)
(*             applied to bounded site listings.                            *)
(*                                                                         *)
(* Strings are sequences of one-character strings, so that the slicing and *)
(* suffix arithmetic of the code is computed, not assumed.                 *)
(***************************************************************************)
EXTENDS Integers, Sequences, FiniteSets, TLC

VARIABLES
    docs,     \* the batch: record id -> the source item behind the record
    disk,     \* record id -> the file at the record's download_filepath
    op,       \* Spec: the latest pipeline step, the record it ran on, what it did
    call      \* SpecEnum: the latest enumeration call, its inputs and result

dvars == <<docs, disk, op>>
vars  == <<docs, disk, op, call>>

----------------------------------------------------------------------------
(* Program constants and model bounds *)

MAX_MB_SIZE == 512000000

CHUNK_SIZE == 104857600

NumDocs == 2

MaxCut == 1

NoneVal == <<"N", "o", "n", "e">>

AMP == <<"&", "a", "m", "p", ";">>

EMPTY_DIV == <<"<", "d", "i", "v", ">", "<", "/", "d", "i", "v", ">">>

----------------------------------------------------------------------------
(* The download side *)

DocIds == 1..NumDocs

\* A file record: `size` is what file.get_property("size", 0) reports (0 when
\* the property is not loaded), `length` the number of bytes the source holds.
FileDocs ==
    {[kind |-> "file", size |-> s, length |-> n, layout |-> NoneVal, canvas |-> NoneVal] :
        <<s, n>> \in {<<0, 0>>, <<MAX_MB_SIZE, MAX_MB_SIZE>>,
                      <<MAX_MB_SIZE + 1, MAX_MB_SIZE + 1>>, <<0, MAX_MB_SIZE + 1>>}}

\* A page record: the two content properties of the page's list item.
PageDocs ==
    {[kind |-> "page", size |-> 0, length |-> 0, layout |-> l, canvas |-> c] :
        l \in {NoneVal, <<"x">>}, c \in {<<>>, AMP}}

DocInputs == FileDocs \cup PageDocs

Absent == [exists |-> FALSE, len |-> 0]

OnDisk(n) == [exists |-> TRUE, len |-> n]

\* html.unescape on the strings of the model: the entity &amp; becomes &.
RECURSIVE unescape(_)
unescape(s) ==
    IF s = <<>> THEN <<>>
    ELSE IF Len(s) >= Len(AMP) /\ SubSeq(s, 1, Len(AMP)) = AMP
         THEN <<"&">> \o unescape(SubSeq(s, Len(AMP) + 1, Len(s)))
         ELSE <<Head(s)>> \o unescape(Tail(s))

\* content.properties.get(label, "") or ""
OrEmpty(v) == IF v = NoneVal THEN <<>> ELSE v

\* The payload _get_page writes.
PagePayload(doc) ==
    LET pld == OrEmpty(doc.layout) \o OrEmpty(doc.canvas)
    IN  IF pld # <<>> THEN unescape(pld) ELSE EMPTY_DIV

\* The complete content of the source item, as a length.
FullLen(doc) == IF doc.kind = "file" THEN doc.length ELSE Len(PagePayload(doc))

\* The cache test of the skip_if_file_exists decorator.
skip_if_file_exists(f) == f.exists /\ f.len > 0

get_file_unguarded(d) == FALSE

\* get_file is wrapped by the decorator: the body runs only when this is false.
get_file_skips(d) == skip_if_file_exists(disk[d])

UseChunksInclusive(fsize) == fsize >= MAX_MB_SIZE

\* if fsize > MAX_MB_SIZE: download_session(...) else: download(...)
UseChunks(fsize) == fsize > MAX_MB_SIZE

\* Number of chunk writes download_session makes for n bytes.
NChunks(n) == (n + CHUNK_SIZE - 1) \div CHUNK_SIZE

\* The bytes of one write that may have reached the file when the write
\* raises (disk full, file size limit, lost mount): any number short of the
\* whole in the code, the first 0..MaxCut of them in the model.
WriteCuts == 0..MaxCut

\* What one run of _get_file can do. `written` is the length of the file left at
\* download_filepath, -1 when the file was not opened; `contacted` whether the
\* source was asked for content; `ok` whether "File downloaded" was reached.
\*  - mkdir (or open) raises: nothing is opened, the source is not contacted;
\*  - the file is opened "wb" (created or truncated), then the transfer runs:
\*      download_session writes chunk after chunk, and may raise after any
\*      number of whole chunks, or part-way into the write of the next one;
\*      download writes the whole response in one write, and may raise before
\*      it or part-way into it.
\* Every exception is caught, logged and swallowed by the except clause.
_get_file(doc) ==
    LET fsize == doc.size
        how   == IF UseChunks(fsize) THEN "session" ELSE "download"
        starts == IF UseChunks(fsize)
                  THEN {k * CHUNK_SIZE : k \in 0..(NChunks(doc.length) - 1)} \cup {0}
                  ELSE {0}
        left  == {w \in {b + c : b \in starts, c \in WriteCuts} : w = 0 \/ w < doc.length}
    IN  {[ok |-> FALSE, written |-> -1, contacted |-> FALSE, how |-> "none"]}
        \cup {[ok |-> TRUE, written |-> doc.length, contacted |-> TRUE, how |-> how]}
        \cup {[ok |-> FALSE, written |-> w, contacted |-> TRUE, how |-> how] : w \in left}

\* What one run of _get_page can do: the list item query contacts the source
\* first; the query, the mkdir or the open may raise (no file is opened); once
\* the file is opened "w" (created or truncated), f.write(pld) or the close of
\* the with block may raise with any part of the payload short of the whole on
\* disk; else the payload is written whole. The except clause logs and returns.
_get_page(doc) ==
    {[ok |-> FALSE, written |-> -1, contacted |-> TRUE, how |-> "page"],
     [ok |-> TRUE, written |-> Len(PagePayload(doc)), contacted |-> TRUE, how |-> "page"]}
    \cup {[ok |-> FALSE, written |-> k, contacted |-> TRUE, how |-> "page"] :
             k \in 0..(Len(PagePayload(doc)) - 1)}

\* The body of get_file: if self.meta is None: _get_file() else: _get_page()
get_file_body(doc) == IF doc.kind = "file" THEN _get_file(doc) ELSE _get_page(doc)

\* Whether a get_file call that ended with outcome o raised to its caller:
\* both except clauses log and return.
get_file_raises(o) == FALSE

\* The Downloader stage's marking of a record after get_file returned.
StageResult(raised) == IF raised THEN "Failed" ELSE "Downloaded"

NoOp ==
    [name |-> "none", doc |-> 0, result |-> "none",
     contacted |-> FALSE, how |-> "none", mark |-> "Discovered"]

\* One invocation of get_file on record d, as the Downloader stage makes it.
\* op records the call: result is how it ended (skip, ok, error), contacted
\* whether this call asked the source for content, how the transfer path it
\* took, mark the state the stage gives the record when the call is over.
GetFile(d) ==
    /\ IF get_file_skips(d)
       THEN /\ op' = [name |-> "get_file", doc |-> d, result |-> "skip",
                      contacted |-> FALSE, how |-> "none", mark |-> StageResult(FALSE)]
            /\ UNCHANGED disk
       ELSE \E o \in get_file_body(docs[d]) :
              /\ disk' = [disk EXCEPT ![d] = IF o.written < 0 THEN @ ELSE OnDisk(o.written)]
              /\ op' = [name |-> "get_file", doc |-> d,
                        result |-> IF o.ok THEN "ok" ELSE "error",
                        contacted |-> o.contacted, how |-> o.how,
                        mark |-> StageResult(get_file_raises(o))]
    /\ UNCHANGED <<docs, call>>

\* The stage after the Downloader runs on the record the Downloader has just
\* handled, unless the Downloader marked it Failed.
Partition(d) ==
    /\ op.name = "get_file" /\ op.doc = d /\ op.mark = "Downloaded"
    /\ op' = [op EXCEPT !.name = "partition", !.mark = "Processed"]
    /\ UNCHANGED <<docs, disk, call>>

----------------------------------------------------------------------------
(* The enumeration side: strings and paths *)

MaxFiles == 2

MaxFolders == 1

MaxPages == 2

SLASH == <<"/">>

DOT == <<".">>

JSON == <<".", "j", "s", "o", "n">>

HTML == <<".", "h", "t", "m", "l">>

\* standard_config.download_dir and standard_config.output_dir, already
\* absolute and free of symbolic links, so that Path.resolve() changes nothing.
DOWNLOAD_DIR == <<"/", "d">>

OUTPUT_DIR == <<"/", "o">>

\* config.path, the folder of the site that is ingested.
CONFIG_PATH == <<"s">>

\* The keys of EXT_TO_FILETYPE that the model's names can reach.
EXT_TO_FILETYPE_KEYS ==
    {<<".", "t", "x", "t">>, <<".", "m", "d">>, HTML}

\* Position of the first "." of s at or after position i, 0 when there is none.
RECURSIVE FirstDot(_, _)
FirstDot(s, i) ==
    IF i > Len(s) THEN 0 ELSE IF s[i] = "." THEN i ELSE FirstDot(s, i + 1)

\* Position of the last occurrence of character c in s, 0 when there is none.
RECURSIVE LastIndexOf(_, _, _)
LastIndexOf(s, c, i) ==
    IF i = 0 THEN 0 ELSE IF s[i] = c THEN i ELSE LastIndexOf(s, c, i - 1)

\* Number of leading "." of s.
RECURSIVE LeadingDots(_)
LeadingDots(s) ==
    IF s # <<>> /\ Head(s) = "." THEN 1 + LeadingDots(Tail(s)) ELSE 0

\* The last component of a path.
PathName(p) == SubSeq(p, LastIndexOf(p, "/", Len(p)) + 1, Len(p))

\* "".join(Path(name).suffixes): nothing when the name ends with a dot, else
\* the name from its first dot on, the leading dots of the name set aside.
JoinedSuffixes(path) ==
    LET name == PathName(path)
        k    == LeadingDots(name)
        i    == FirstDot(name, k + 1)
    IN  IF name = <<>> \/ name[Len(name)] = "." \/ i = 0 THEN <<>>
        ELSE SubSeq(name, i, Len(name))

\* Path(name).suffix: the name from its last dot on, when that dot is neither
\* the first nor the last character of the name.
PathSuffix(path) ==
    LET name == PathName(path)
        i    == LastIndexOf(name, ".", Len(name))
    IN  IF 1 < i /\ i < Len(name) THEN SubSeq(name, i, Len(name)) ELSE <<>>

\* Runs of "/" collapse to one.
RECURSIVE CollapseSlashes(_)
CollapseSlashes(s) ==
    IF Len(s) <= 1 THEN s
    ELSE IF Head(s) = "/" /\ s[2] = "/" THEN CollapseSlashes(Tail(s))
    ELSE <<Head(s)>> \o CollapseSlashes(Tail(s))

\* str(Path(s)) for the strings of the model (no "." or ".." component, no
\* leading "//"): runs of "/" collapse and a trailing "/" is dropped.
PurePath(s) ==
    LET c == CollapseSlashes(s)
    IN  IF Len(c) > 1 /\ c[Len(c)] = "/" THEN SubSeq(c, 1, Len(c) - 1) ELSE c

\* p.with_suffix(ext): the suffix of the last component is replaced by ext.
WithSuffix(p, ext) == SubSeq(p, 1, Len(p) - Len(PathSuffix(p))) \o ext

\* p.parent
PathParent(p) ==
    LET i == LastIndexOf(p, "/", Len(p))
    IN  IF i = 0 THEN DOT ELSE IF i = 1 THEN SLASH ELSE SubSeq(p, 1, i - 1)

\* base / rel, for an absolute base: an absolute rel replaces the base.
PathJoin(base, rel) ==
    IF rel # <<>> /\ Head(rel) = "/" THEN rel
    ELSE IF rel = <<>> \/ rel = DOT THEN base
    ELSE IF base = SLASH THEN base \o rel
    ELSE base \o SLASH \o rel

\* s[:-n] of Python: s[:-0] is s[:0], the empty string.
DropLast(s, n) == IF n = 0 THEN <<>> ELSE SubSeq(s, 1, Len(s) - n)

----------------------------------------------------------------------------
(* The enumeration side: records *)

\* oname = f"{str(parent)[:-len(self.ext)]}.json"
Oname(parent, ext) == DropLast(parent, Len(ext)) \o JSON

\* _set_download_paths, given the record's ext.
_set_download_paths(file, meta, ext) ==
    LET parent ==
            IF ~meta.none
            THEN IF meta.site_path = NoneVal
                 THEN WithSuffix(PurePath(meta.url), ext)
                 ELSE WithSuffix(PurePath(meta.site_path \o SLASH \o meta.url), ext)
            ELSE PurePath(Tail(file.serverRelativeUrl))
    IN  [download_dir      |-> PathJoin(DOWNLOAD_DIR, PathParent(parent)),
         download_filepath |-> PathJoin(DOWNLOAD_DIR, parent),
         output_dir        |-> PathJoin(OUTPUT_DIR, PathParent(parent)),
         output_filepath   |-> PathJoin(OUTPUT_DIR, Oname(parent, ext))]

\* SharepointIngestDoc(standard_config, config, file, meta): __post_init__
\* raises ValueError for a name without extension or with one that is not a key
\* of EXT_TO_FILETYPE, and sets the paths otherwise.
SharepointIngestDoc(file, meta) ==
    LET ext == IF meta.none THEN JoinedSuffixes(file.name) ELSE HTML
    IN  IF ext = <<>> \/ ext \notin EXT_TO_FILETYPE_KEYS
        THEN [ok |-> FALSE, err |-> "ValueError"]
        ELSE [ok |-> TRUE, err |-> "",
              doc |-> [file |-> file, meta |-> meta, ext |-> ext,
                       paths |-> _set_download_paths(file, meta, ext)]]

\* [SharepointIngestDoc(..., f[1], f[2]) for f in items]: the first constructor
\* that raises ends the comprehension, and nothing is returned.
RECURSIVE IngestDocs(_)
IngestDocs(items) ==
    IF items = <<>> THEN [ok |-> TRUE, err |-> "", docs |-> <<>>]
    ELSE LET d    == SharepointIngestDoc(items[1][1], items[1][2])
             rest == IngestDocs(Tail(items))
         IN  IF ~d.ok THEN [ok |-> FALSE, err |-> d.err, docs |-> <<>>]
             ELSE IF ~rest.ok THEN rest
             ELSE [ok |-> TRUE, err |-> "", docs |-> <<d.doc>> \o rest.docs]

\* meta is None
NoMeta == [none |-> TRUE, url |-> <<>>, site_path |-> NoneVal]

\* <<f, None>> for every f of files
RECURSIVE WithNoMeta(_)
WithNoMeta(files) ==
    IF files = <<>> THEN <<>> ELSE <<<<Head(files), NoMeta>>>> \o WithNoMeta(Tail(files))

\* self._list_objects(f, recursive): neither SharepointConnector nor its bases
\* define _list_objects, so the attribute lookup raises AttributeError.
_list_objects(f, recursive) == [ok |-> FALSE, err |-> "AttributeError", files |-> <<>>]

\* for f in folder.folders: files += self._list_objects(f, recursive)
RECURSIVE ExtendWithFolders(_, _, _)
ExtendWithFolders(files, folders, recursive) ==
    IF folders = <<>> THEN [ok |-> TRUE, err |-> "", files |-> files]
    ELSE LET sub == _list_objects(Head(folders), recursive)
         IN  IF ~sub.ok THEN sub
             ELSE ExtendWithFolders(files \o sub.files, Tail(folders), recursive)

_list_files_flag_inverted(root, recursive) ==
    IF root.raises THEN [ok |-> FALSE, err |-> "ClientRequestException", files |-> <<>>]
    ELSE IF recursive THEN [ok |-> TRUE, err |-> "", files |-> root.files]
    ELSE ExtendWithFolders(root.files, root.folders, recursive)

\* _list_files(root, recursive); root.raises says that the query of the folder
\* fails.
_list_files(root, recursive) ==
    IF root.raises THEN [ok |-> FALSE, err |-> "ClientRequestException", files |-> <<>>]
    ELSE IF ~recursive THEN [ok |-> TRUE, err |-> "", files |-> root.files]
    ELSE ExtendWithFolders(root.files, root.folders, recursive)

\* _list_pages over the listing `pages` (the Url property of each page, None
\* when missing) of a site whose base_url has path `spath`.
RECURSIVE ListPagesFrom(_, _)
ListPagesFrom(pages, spath) ==
    IF pages = <<>> THEN <<>>
    ELSE LET page_url == Head(pages)
         IN  IF page_url = NoneVal THEN <<>>
             ELSE LET url       == IF Head(page_url) # "/" THEN SLASH \o page_url ELSE page_url
                      site_path == IF spath # <<>> /\ spath # SLASH THEN Tail(spath) ELSE NoneVal
                  IN  <<<<[name |-> <<>>, serverRelativeUrl |-> url],
                          [none |-> FALSE, url |-> page_url, site_path |-> site_path]>>>>
                      \o ListPagesFrom(Tail(pages), spath)

_list_pages(site) == ListPagesFrom(site.pages, site.spath)

\* _ingest_site_docs(site_client) under config (path, recursive, process_pages).
_ingest_site_docs(site, config) ==
    IF site.exists THEN [ok |-> TRUE, err |-> "", docs |-> <<>>]
    ELSE LET lf == _list_files(site.root, config.recursive)
         IN  IF ~lf.ok THEN [ok |-> FALSE, err |-> lf.err, docs |-> <<>>]
             ELSE LET output == IngestDocs(WithNoMeta(lf.files))
                  IN  IF ~output.ok \/ ~config.process_pages THEN output
                      ELSE LET page_output == IngestDocs(_list_pages(site))
                           IN  IF ~page_output.ok THEN page_output
                               ELSE [ok |-> TRUE, err |-> "",
                                     docs |-> output.docs \o page_output.docs]

----------------------------------------------------------------------------
(* The enumeration side: bounded listings and the calls on them *)

\* File names a listing may hold, in listing order: no extension, three
\* recognized ones (two of them share the stem), one that is not recognized.
FILE_NAMES ==
    << <<"a">>, <<"a", ".", "t", "x", "t">>, <<"a", ".", "m", "d">>,
       <<"b", ".", "t", "x", "t">>, <<"a", ".", "x", "y", "z">> >>

SUB_NAMES == << <<"b", ".", "t", "x", "t">>, <<"a", ".", "x", "y", "z">> >>

PAGE_URLS == {NoneVal, <<"/", "p", ".", "a", "s", "p", "x">>, <<"q", ".", "a", "s", "p", "x">>}

SITE_PATHS == {<<>>, SLASH, <<"/", "t">>}

ROOT_URL == SLASH \o CONFIG_PATH

FolderName(i) == IF i = 1 THEN <<"u">> ELSE IF i = 2 THEN <<"v">> ELSE <<"w">>

\* All subsequences of a sequence.
RECURSIVE SubSeqs(_)
SubSeqs(names) ==
    IF names = <<>> THEN {<<>>}
    ELSE LET r == SubSeqs(Tail(names))
         IN  r \cup {<<Head(names)>> \o x : x \in r}

\* The File objects of a folder at folderUrl holding `names`.
FilesAt(folderUrl, names) ==
    [i \in 1..Len(names) |->
        [name |-> names[i], serverRelativeUrl |-> folderUrl \o SLASH \o names[i]]]

SubFolder(i, names) ==
    [raises |-> FALSE, files |-> FilesAt(ROOT_URL \o SLASH \o FolderName(i), names),
     folders |-> <<>>]

FolderSeqs ==
    UNION {{[i \in 1..k |-> SubFolder(i, f[i])] : f \in [1..k -> SubSeqs(SUB_NAMES)]} :
              k \in 0..MaxFolders}

\* The folder trees under config.path of a site where the folder exists.
Trees ==
    {[raises |-> FALSE, files |-> FilesAt(ROOT_URL, n), folders |-> fs] :
        n \in {x \in SubSeqs(FILE_NAMES) : Len(x) <= MaxFiles}, fs \in FolderSeqs}

\* What the query of a folder that does not exist gives: an error, or nothing.
MissingFolders ==
    {[raises |-> r, files |-> <<>>, folders |-> <<>>] : r \in BOOLEAN}

PageListings == UNION {[1..k -> PAGE_URLS] : k \in 0..MaxPages}

Sites ==
    {[exists |-> TRUE, root |-> t, pages |-> p, spath |-> sp] :
        t \in Trees, p \in PageListings, sp \in SITE_PATHS}
    \cup {[exists |-> FALSE, root |-> t, pages |-> p, spath |-> sp] :
        t \in MissingFolders, p \in PageListings, sp \in SITE_PATHS}

Configs == [recursive : BOOLEAN, process_pages : BOOLEAN]

\* Each behaviour of SpecEnum makes one call, on inputs of its choice.
NoCall == [op |-> "none", arg |-> <<>>, out |-> <<>>]

CallListFiles ==
    /\ call.op = "none"
    /\ \E root \in Trees \cup MissingFolders, recursive \in BOOLEAN :
         call' = [op |-> "_list_files", arg |-> [root |-> root, recursive |-> recursive],
                  out |-> _list_files(root, recursive)]
    /\ UNCHANGED dvars

CallListPages ==
    /\ call.op = "none"
    /\ \E p \in PageListings, sp \in SITE_PATHS :
         LET site == [exists |-> TRUE, root |-> [raises |-> FALSE, files |-> <<>>, folders |-> <<>>],
                      pages |-> p, spath |-> sp]
         IN  call' = [op |-> "_list_pages", arg |-> site, out |-> _list_pages(site)]
    /\ UNCHANGED dvars

CallIngestDocs ==
    /\ call.op = "none"
    /\ \E t \in Trees :
         call' = [op |-> "ingest_docs", arg |-> t.files, out |-> IngestDocs(WithNoMeta(t.files))]
    /\ UNCHANGED dvars

CallIngestSiteDocs ==
    /\ call.op = "none"
    /\ \E site \in Sites, config \in Configs :
         call' = [op |-> "_ingest_site_docs", arg |-> [site |-> site, config |-> config],
                  out |-> _ingest_site_docs(site, config)]
    /\ UNCHANGED dvars

Init ==
    /\ docs \in [DocIds -> DocInputs]
    /\ disk = [d \in DocIds |-> Absent]
    /\ op = NoOp
    /\ call = NoCall

Next ==
    \/ \E d \in DocIds : GetFile(d)
    \/ \E d \in DocIds : Partition(d)

Spec == Init /\ [][Next]_vars

InitEnum ==
    /\ docs = [d \in DocIds |-> CHOOSE x \in PageDocs : TRUE]
    /\ disk = [d \in DocIds |-> Absent]
    /\ op = NoOp
    /\ call = NoCall

NextEnum ==
    \/ CallListFiles
    \/ CallListPages
    \/ CallIngestDocs
    \/ CallIngestSiteDocs

SpecEnum == InitEnum /\ [][NextEnum]_vars

----------------------------------------------------------------------------
(* Properties of the download side, checked under Spec *)

NonEmpty(f) == f.exists /\ f.len > 0

\* The step is a get_file call on the record whose previous pipeline step
\* (its get_file call, or the stage that follows it) came after a get_file
\* call that ended as `how`.
CallAfter(how) == op'.name = "get_file" /\ op.doc = op'.doc /\ op.result = how

\* C1 (as amended): a get_file call on a record whose download_filepath holds
\* a non-empty file does not contact the source and leaves the file as it is;
\* and the call that follows a successful fetch of a non-empty source item
\* does not contact the source either, so that the two calls make one fetch.
C1_CachedFileIsNotFetched ==
    [][op'.name = "get_file" =>
          LET d == op'.doc
          IN  /\ NonEmpty(disk[d]) =>
                     (~op'.contacted /\ op'.result = "skip" /\ disk'[d] = disk[d])
              /\ (CallAfter("ok") /\ FullLen(docs[d]) > 0) =>
                     (~op'.contacted /\ disk'[d] = OnDisk(FullLen(docs[d])))]_vars

\* C1 witness: a call skipped a complete, non-empty file that a successful
\* fetch had left.
C1_Witness ==
    /\ op.name = "get_file" /\ op.result = "skip" /\ ~op.contacted
    /\ disk[op.doc] = OnDisk(FullLen(docs[op.doc])) /\ FullLen(docs[op.doc]) > 0

\* C1 as stated: the get_file call that follows a successful fetch of the
\* record makes no network call.
C1_Original == [][CallAfter("ok") => ~op'.contacted]_vars

\* C2 as stated: a record whose transfer raised during get_file is marked
\* Failed by the Downloader and is not handed to the Partitioner.
C2_FailedTransferIsMarkedFailed ==
    \A d \in DocIds :
        (op.doc = d /\ op.contacted /\ op.result = "error") => op.mark = "Failed"

\* C8: whenever _get_file fetches a file, it takes the chunked path
\* (download_session) exactly when the reported size exceeds 512,000,000, and
\* the single-shot path (download) exactly when it is at most that.
C8_ChunkedIffAboveThreshold ==
    (op.name = "get_file" /\ op.contacted /\ docs[op.doc].kind = "file") =>
        /\ op.how \in {"session", "download"}
        /\ (op.how = "session") <=> (docs[op.doc].size > MAX_MB_SIZE)
        /\ (op.how = "download") <=> (docs[op.doc].size <= MAX_MB_SIZE)

\* C8 witness: a file above the threshold was fetched, in chunks, to the end.
C8_Witness ==
    /\ op.name = "get_file" /\ op.contacted /\ op.how = "session"
    /\ docs[op.doc].size > MAX_MB_SIZE
    /\ op.result = "ok"

\* C9 as stated: a non-empty file at a record's download_filepath holds the
\* complete content of the source item.
C9_NonEmptyFileIsComplete ==
    \A d \in DocIds : NonEmpty(disk[d]) => disk[d].len = FullLen(docs[d])

----------------------------------------------------------------------------
(* Properties of the enumeration side, checked under SpecEnum *)

\* The names a file is known by in a listing.
RECURSIVE UrlsOf(_)
UrlsOf(files) ==
    IF files = <<>> THEN <<>> ELSE <<Head(files).serverRelativeUrl>> \o UrlsOf(Tail(files))

IsSupported(file) == JoinedSuffixes(file.name) \in EXT_TO_FILETYPE_KEYS

IsFileDoc(doc) == doc.meta.none

RECURSIVE DocUrls(_)
DocUrls(ds) ==
    IF ds = <<>> THEN <<>> ELSE <<Head(ds).file.serverRelativeUrl>> \o DocUrls(Tail(ds))

\* Every file under a folder, at every depth, the folder's own files first.
RECURSIVE AllFiles(_)
RECURSIVE AllFilesOf(_)
AllFiles(folder) == folder.files \o AllFilesOf(folder.folders)
AllFilesOf(folders) ==
    IF folders = <<>> THEN <<>> ELSE AllFiles(Head(folders)) \o AllFilesOf(Tail(folders))

\* A listing that holds an unsupported item next to a supported one.
IsMixed(files) ==
    /\ \E i \in DOMAIN files : ~IsSupported(files[i])
    /\ \E i \in DOMAIN files : IsSupported(files[i])

\* C3 as stated: from a listing with an item of absent or unrecognized
\* extension, enumeration returns a record for every supported item and none
\* for the unsupported one.
C3_UnsupportedItemOmitted ==
    /\ (call.op = "ingest_docs" /\ IsMixed(call.arg)) =>
          (call.out.ok /\ DocUrls(call.out.docs) = UrlsOf(SelectSeq(call.arg, IsSupported)))
    /\ (call.op = "_ingest_site_docs" /\ call.arg.site.exists /\ ~call.arg.config.recursive
           /\ IsMixed(call.arg.site.root.files)) =>
          /\ call.out.ok
          /\ DocUrls(SelectSeq(call.out.docs, IsFileDoc))
                = UrlsOf(SelectSeq(call.arg.site.root.files, IsSupported))

\* C4: with recursive false, _list_files returns exactly the files at the
\* immediate level of the folder, in listing order, and no file of a subfolder.
C4_NonRecursiveListsImmediateLevel ==
    (call.op = "_list_files" /\ ~call.arg.recursive /\ ~call.arg.root.raises) =>
        /\ call.out.ok
        /\ call.out.files = call.arg.root.files
        /\ \A i \in DOMAIN call.out.files :
              PathParent(call.out.files[i].serverRelativeUrl) = ROOT_URL

\* C4 witness: a non-recursive listing of a folder that holds files and a
\* subfolder with files of its own.
C4_Witness ==
    /\ call.op = "_list_files" /\ ~call.arg.recursive
    /\ call.arg.root.files # <<>>
    /\ call.arg.root.folders # <<>> /\ call.arg.root.folders[1].files # <<>>
    /\ call.out.ok /\ call.out.files = call.arg.root.files

\* C5 as stated: with recursive true, _list_files returns every file at every
\* depth under the folder, each once.
C5_RecursiveListsEveryDepth ==
    (call.op = "_list_files" /\ call.arg.recursive /\ ~call.arg.root.raises) =>
        (call.out.ok /\ call.out.files = AllFiles(call.arg.root))

\* C6 as stated: _ingest_site_docs returns the records of the folder's files
\* for a site where the configured folder exists, and no record for a site
\* where it does not (the query of the missing folder not raising).
C6_FolderMustExistToBeProcessed ==
    call.op = "_ingest_site_docs" =>
        LET site == call.arg.site
        IN  /\ (site.exists /\ ~call.arg.config.recursive
                  /\ \A i \in DOMAIN site.root.files : IsSupported(site.root.files[i])) =>
                  /\ call.out.ok
                  /\ DocUrls(SelectSeq(call.out.docs, IsFileDoc)) = UrlsOf(site.root.files)
            /\ (~site.exists /\ ~site.root.raises) => (call.out.ok /\ call.out.docs = <<>>)

\* C7 as stated: a file record with relative source path p gets
\* download_path download_dir/p and output_path output_dir/p.json, and two
\* records with different source paths have different output paths.
C7_PathsMirrorSourcePath ==
    (call.op = "ingest_docs" /\ call.out.ok) =>
        /\ \A i \in DOMAIN call.out.docs :
              LET p == Tail(call.out.docs[i].file.serverRelativeUrl)
              IN  /\ call.out.docs[i].paths.download_filepath = DOWNLOAD_DIR \o SLASH \o p
                  /\ call.out.docs[i].paths.output_filepath = OUTPUT_DIR \o SLASH \o p \o JSON
        /\ \A i, j \in DOMAIN call.out.docs :
              i # j => call.out.docs[i].paths.output_filepath
                          # call.out.docs[j].paths.output_filepath

HasUrl(u) == u # NoneVal

RECURSIVE MetaUrls(_)
MetaUrls(items) ==
    IF items = <<>> THEN <<>> ELSE <<Head(items)[2].url>> \o MetaUrls(Tail(items))

\* C10 as stated: _list_pages omits the pages whose Url is missing and returns
\* every other page, in listing order.
C10_OnlyPagesWithoutUrlOmitted ==
    call.op = "_list_pages" =>
        MetaUrls(call.out) = SelectSeq(call.arg.pages, HasUrl)

====
